---- MODULE Spec2Model ----
(***************************************************************************)
(* A model of integrity-check.py: a SHA-256 store persisted as one JSON    *)
(* file (HASH_STORE) and the three commands init, check and update that    *)
(* read and rewrite it.                                                    *)
(*                                                                         *)
(* File contents are abstracted to small naturals ("bytes") and SHA-256 to *)
(* a sum of their digits onto NumDigests digests, so that two contents may *)
(* share a digest; the backing file's bytes are an injective encoding of   *)
(* the JSON value it holds, so hashing the backing file itself is          *)
(* modelled.                                                               *)
(***************************************************************************)
EXTENDS Integers, Sequences, FiniteSets, TLC

\* ---------------------------------------------------------------- bounds
\* log file contents are 0..MaxContent
MaxContent == 1

\* digests are 1..NumDigests
NumDigests == 2

\* ------------------------------------------------------ program constants
\* compute_file_hash returns None when the file cannot be read
None == 0

HASH_STORE == "H/.log_integrity_store.json"

\* ------------------------------------------------------------ file system
\* Two directories: D holds two log files, H (the home directory) holds the
\* backing file of the store.  The path of a file that does not exist names
\* neither a file nor a directory.
LogFiles == {"D/x.log", "D/y.log"}
Files == LogFiles \cup {HASH_STORE}

\* the log files the environment also protects and removes; the others are
\* only rewritten
Volatile == {"D/x.log"}
Dirs == {"D", "H"}
Paths == Files \cup Dirs

\* the order in which os.walk lists the files
Listing == <<"D/x.log", "D/y.log", HASH_STORE>>

DirOf(f) == IF f \in LogFiles THEN "D" ELSE "H"

Contents == 0..MaxContent
Digests == 1..NumDigests

NoFile == [exists |-> FALSE, bytes |-> 0, readable |-> TRUE]
FileStates ==
    {NoFile} \cup [exists : {TRUE}, bytes : Contents, readable : BOOLEAN]

EmptyMap == [p \in {} |-> None]

\* what the backing file holds: nothing (absent), text that is not JSON,
\* a JSON list, number or string, or a JSON object (map: path -> digest)
Holds(kind, map) == [kind |-> kind, map |-> map]
Object(map) == Holds("object", map)
Absent == Holds("absent", EmptyMap)
Garbage == Holds("text", EmptyMap)

VARIABLES
    fs,       \* fs[f]: the state of log file f
    disk,     \* what the backing file HASH_STORE holds
    mode,     \* the backing file's permissions, a subset of {"r", "w"}
    last,     \* the command that produced this state, and what it reported
    watch,    \* the path whose history is followed ("-": none)
    hist,     \* what happened to the path `watch` so far
    procs     \* procs[p]: where the concurrent update process p stands

vars == <<fs, disk, mode, last, watch, hist, procs>>


\* ------------------------------------------------------------ os.path, os.walk
isfile(path) ==
    \/ path \in LogFiles /\ fs[path].exists
    \/ path = HASH_STORE /\ disk.kind # "absent"

isdir(path) == path \in Dirs

\* a walk that does not stay inside its directory
walk_all(directory) == SelectSeq(Listing, LAMBDA f : isfile(f))

\* a walk that also yields the files that were removed
walk_removed(directory) == SelectSeq(Listing, LAMBDA f : DirOf(f) = directory)

\* the files os.walk(directory) yields, joined to their directory
walk(directory) ==
    SelectSeq(Listing, LAMBDA f : DirOf(f) = directory /\ isfile(f))

\* ------------------------------------------------------------------ json
\* json.dump writes the whole mapping; the text is encoded as a number in
\* base Base with one digit per path (0: no such key, v + 1: value v).
Base == NumDigests + 2

Digit(map, p) == IF p \in DOMAIN map THEN map[p] + 1 ELSE 0

RECURSIVE Encode(_, _)
Encode(map, i) ==
    IF i > Len(Listing) THEN 0
    ELSE Digit(map, Listing[i]) + Base * Encode(map, i + 1)

json_dump(map) == Encode(map, 1)

RECURSIVE Pow(_, _)
Pow(b, n) == IF n = 0 THEN 1 ELSE b * Pow(b, n - 1)

\* the bytes of the backing file, for each thing it can hold
StoreBytes(h) ==
    LET top == Pow(Base, Len(Listing))
    IN  CASE h.kind = "object" -> json_dump(h.map)
          [] h.kind = "text"   -> top
          [] h.kind = "list"   -> top + 1
          [] h.kind = "number" -> top + 2
          [] h.kind = "string" -> top + 3

FileBytes(path) ==
    IF path = HASH_STORE THEN StoreBytes(disk) ELSE fs[path].bytes

CanRead(path) ==
    IF path = HASH_STORE THEN "r" \in mode ELSE fs[path].readable

\* ---------------------------------------------------------------- hashing
\* the read loop: the bytes are the digits, in base Base, of the number
\* that stands for them; each f.read() takes the next digit, an empty read
\* ends the loop, and sha256.update() adds the digit to the running state
RECURSIVE sha256(_)
sha256(bytes) ==
    IF bytes = 0 THEN 0 ELSE (bytes % Base) + sha256(bytes \div Base)

\* sha256.hexdigest() of the bytes read: never None, and not injective
hexdigest(bytes) == (sha256(bytes) % NumDigests) + 1

Msg(tag, path) == <<tag, path>>

\* a hash that reads the file whatever its permissions
compute_file_hash_forced(file_path) ==
    IF isfile(file_path)
    THEN [hash |-> hexdigest(FileBytes(file_path)), out |-> <<>>]
    ELSE [hash |-> None, out |-> <<Msg("Error reading file", file_path)>>]

\* compute_file_hash: the digest, or None and a message on IOError
compute_file_hash(file_path) ==
    IF isfile(file_path) /\ CanRead(file_path)
    THEN [hash |-> hexdigest(FileBytes(file_path)), out |-> <<>>]
    ELSE [hash |-> None, out |-> <<Msg("Error reading file", file_path)>>]

\* ------------------------------------------------------------------ store
\* load_hash_store: {} on FileNotFoundError and JSONDecodeError; any other
\* exception (PermissionError) propagates; whatever json.load parses is
\* returned as it is.
load_hash_store ==
    CASE disk.kind = "absent" -> [raised |-> FALSE, val |-> Object(EmptyMap)]
      [] disk.kind # "absent" /\ "r" \notin mode ->
             [raised |-> TRUE, val |-> Object(EmptyMap)]
      [] disk.kind = "text" /\ "r" \in mode ->
             [raised |-> FALSE, val |-> Object(EmptyMap)]
      [] OTHER -> [raised |-> FALSE, val |-> disk]

\* a save that merges what it is given into what the file holds
save_hash_store_merge(store, full) ==
    LET old == IF disk.kind = "object" THEN disk.map ELSE EmptyMap
    IN  [ok |-> ~full,
         out |-> IF full THEN <<Msg("Error saving hash store", "")>> ELSE <<>>,
         disk |-> IF full THEN Garbage
                  ELSE Object([p \in DOMAIN old \cup DOMAIN store |->
                                  IF p \in DOMAIN store THEN store[p]
                                  ELSE old[p]]),
         mode |-> IF disk.kind = "absent" THEN {"r", "w"} ELSE mode]

\* a save that reports success whatever became of the file
save_hash_store_unchecked(store, full) ==
    [ok |-> TRUE, out |-> <<>>,
     disk |-> IF disk.kind # "absent" /\ "w" \notin mode THEN disk
              ELSE IF full THEN Garbage ELSE Object(store),
     mode |-> IF disk.kind = "absent" THEN {"r", "w"} ELSE mode]

\* save_hash_store: open(HASH_STORE, 'w') fails on a file without write
\* permission and leaves it alone; otherwise the file is truncated and
\* json.dump writes it, unless the disk is full, which leaves partial text.
\* IOError is caught in both cases.
save_hash_store(store, full) ==
    LET made == IF disk.kind = "absent" THEN {"r", "w"} ELSE mode
    IN  IF disk.kind # "absent" /\ "w" \notin mode
        THEN [ok |-> FALSE, out |-> <<Msg("Error saving hash store", "")>>,
              disk |-> disk, mode |-> mode]
        ELSE IF full
        THEN [ok |-> FALSE, out |-> <<Msg("Error saving hash store", "")>>,
              disk |-> Garbage, mode |-> made]
        ELSE [ok |-> TRUE, out |-> <<>>,
              disk |-> Object(store), mode |-> made]

\* a membership test that finds no key
Has_never(val, path) == FALSE

\* `path in hash_store` for the values json.load can return: a dict has
\* its keys, the empty list and the empty string contain nothing; on a
\* number the test raises TypeError, which the callers model
Has(val, path) == val.kind = "object" /\ path \in DOMAIN val.map

\* an assignment that is lost
Set_drop(map, path, h) == map

\* an assignment to a mapping that was emptied first
Set_only(map, path, h) == [p \in {path} |-> h]

\* an assignment that deletes the key when it is already there
Set_toggle(map, path, h) ==
    IF path \in DOMAIN map THEN [p \in DOMAIN map \ {path} |-> map[p]]
    ELSE [p \in DOMAIN map \cup {path} |-> IF p = path THEN h ELSE map[p]]

\* hash_store[path] = h: only a dict can be assigned to by a string key
Set(map, path, h) ==
    [p \in DOMAIN map \cup {path} |-> IF p = path THEN h ELSE map[p]]

\* what a command function did: its return value ("True", "False", or
\* "Raised" for an uncaught exception), what it printed, which store
\* operations it called, and the backing file it leaves
Res(fn, ret, out, io) ==
    [fn |-> fn, ret |-> ret, out |-> out, io |-> io,
     disk |-> disk, mode |-> mode,
     modified_files |-> <<>>, new_files |-> <<>>, processed_files |-> 0,
     loaded |-> "-"]

\* what load_hash_store handed to its caller
Loaded(ld) ==
    IF ld.raised THEN "raised"
    ELSE IF ld.val.kind # "object" THEN ld.val.kind
    ELSE IF DOMAIN ld.val.map = {} THEN "{}" ELSE "dict"

Range(seq) == {seq[i] : i \in DOMAIN seq}


\* ------------------------------------------------------------- operations
\* an initialize that starts from the stored mapping
loaded_store == IF disk.kind = "object" THEN disk.map ELSE EmptyMap

\* hash_store = {}: initialize starts from a brand-new mapping
new_hash_store == EmptyMap

\* an initialize that empties the store before it tests its argument
initialize_first(directory, full) ==
    LET sv == IF (disk.kind # "absent" /\ "w" \notin mode) \/ full
              THEN [ok |-> FALSE, disk |-> disk]
              ELSE [ok |-> TRUE, disk |-> Object(new_hash_store)]
    IN  [Res("initialize", IF isdir(directory) /\ sv.ok THEN "True" ELSE "False",
             IF isdir(directory) THEN <<>>
             ELSE <<Msg("Error: not a valid directory", directory)>>,
             {"save"})
           EXCEPT !.disk = sv.disk]

\* initialize(directory)
initialize(directory, full) ==
    IF ~isdir(directory)
    THEN Res("initialize", "False",
             <<Msg("Error: not a valid directory", directory)>>, {})
    ELSE LET w == walk(directory)
             hashed == SelectSeq(w, LAMBDA f : compute_file_hash(f).hash # None)
             failed == SelectSeq(w, LAMBDA f : compute_file_hash(f).hash = None)
             errors == [i \in DOMAIN failed |-> compute_file_hash(failed[i]).out[1]]
             hash_store ==
                 [f \in DOMAIN new_hash_store \cup Range(hashed) |->
                     IF f \in Range(hashed) THEN compute_file_hash(f).hash
                     ELSE new_hash_store[f]]
             processed_files == Len(hashed)
             sv == save_hash_store(hash_store, full)
         IN  IF sv.ok
             THEN [Res("initialize", "True",
                       errors \o <<Msg("Hashes stored successfully", "")>>,
                       {"save"})
                     EXCEPT !.disk = sv.disk, !.mode = sv.mode,
                            !.processed_files = processed_files]
             ELSE [Res("initialize", "False", errors \o sv.out, {"save"})
                     EXCEPT !.disk = sv.disk, !.mode = sv.mode]

\* a check that starts tracking the file it was asked about
check_file_tracking(file_path) ==
    LET old == IF disk.kind = "object" THEN disk.map ELSE EmptyMap
    IN  IF ~isfile(file_path)
        THEN Res("check_file", "False",
                 <<Msg("Error: not a valid file", file_path)>>, {})
        ELSE [Res("check_file", "False",
                  <<Msg("Status: New file (not in hash store)", "")>>,
                  {"load", "save"})
                EXCEPT !.disk = Object(Set_only(old, file_path, 1))]

\* check_file(file_path)
check_file(file_path) ==
    IF ~isfile(file_path)
    THEN Res("check_file", "False",
             <<Msg("Error: not a valid file", file_path)>>, {})
    ELSE LET ld == load_hash_store
             hash_store == ld.val
             current == compute_file_hash(file_path)
             done(ret, out) ==
                 [Res("check_file", ret, out, {"load"})
                     EXCEPT !.loaded = Loaded(ld)]
         IN  IF ld.raised THEN done("Raised", <<>>)
             ELSE IF hash_store.kind = "number"
             THEN done("Raised", current.out)
             ELSE IF ~Has(hash_store, file_path)
             THEN done("False", current.out \o
                       <<Msg("Status: New file (not in hash store)", "")>>)
             ELSE IF current.hash = hash_store.map[file_path]
             THEN done("True", current.out \o <<Msg("Status: Unmodified", "")>>)
             ELSE done("False", current.out \o
                       <<Msg("Status: Modified (Hash mismatch)", "")>>)

\* an update that stores whatever compute_file_hash returned
update_file_unguarded(file_path, full) ==
    IF ~isfile(file_path)
    THEN Res("update_file", "False",
             <<Msg("Error: not a valid file", file_path)>>, {})
    ELSE LET current == compute_file_hash(file_path)
             sv == save_hash_store(Set(IF disk.kind = "object" THEN disk.map
                                     ELSE EmptyMap,
                                     file_path, current.hash), full)
         IN  [Res("update_file", IF sv.ok THEN "True" ELSE "False",
                  current.out \o sv.out, {"load", "save"})
                EXCEPT !.disk = sv.disk, !.mode = sv.mode]

\* an update that starts from a brand-new mapping
update_file_fresh(file_path, full) ==
    IF ~isfile(file_path) \/ compute_file_hash(file_path).hash = None
    THEN Res("update_file", "False",
             <<Msg("Error: not a valid file", file_path)>>, {})
    ELSE LET sv == save_hash_store(
                       Set(EmptyMap, file_path,
                           compute_file_hash(file_path).hash), full)
         IN  [Res("update_file", IF sv.ok THEN "True" ELSE "False",
                  sv.out, {"load", "save"})
                EXCEPT !.disk = sv.disk, !.mode = sv.mode]

\* update_file(file_path)
update_file(file_path, full) ==
    IF ~isfile(file_path)
    THEN Res("update_file", "False",
             <<Msg("Error: not a valid file", file_path)>>, {})
    ELSE LET current == compute_file_hash(file_path)
             ld == load_hash_store
             sv == save_hash_store(Set(ld.val.map, file_path, current.hash), full)
         IN  IF current.hash = None
             THEN Res("update_file", "False", current.out, {})
             ELSE IF ld.raised \/ ld.val.kind # "object"
             THEN [Res("update_file", "Raised", <<>>, {"load"})
                     EXCEPT !.loaded = Loaded(ld)]
             ELSE IF sv.ok
             THEN [Res("update_file", "True",
                       <<Msg("Hash updated successfully.", "")>>,
                       {"load", "save"})
                     EXCEPT !.disk = sv.disk, !.mode = sv.mode,
                            !.loaded = Loaded(ld)]
             ELSE [Res("update_file", "False", sv.out, {"load", "save"})
                     EXCEPT !.disk = sv.disk, !.mode = sv.mode,
                            !.loaded = Loaded(ld)]

\* the lines check_directory prints for a list of paths under a heading
Listed(heading, files) ==
    IF files = <<>> THEN <<>>
    ELSE <<Msg(heading, "")>> \o [i \in DOMAIN files |-> Msg("- ", files[i])]

\* check_directory(directory)
check_directory(directory) ==
    IF ~isdir(directory)
    THEN Res("check_directory", "False",
             <<Msg("Error: not a valid directory", directory)>>, {})
    ELSE LET ld == load_hash_store
             hash_store == ld.val
             w == walk(directory)
             failed == SelectSeq(w, LAMBDA f : compute_file_hash(f).hash = None)
             errors == [i \in DOMAIN failed |-> compute_file_hash(failed[i]).out[1]]
             new_files == SelectSeq(w, LAMBDA f : ~Has(hash_store, f))
             modified_files ==
                 SelectSeq(w, LAMBDA f :
                     /\ Has(hash_store, f)
                     /\ compute_file_hash(f).hash # hash_store.map[f])
             done(ret, out) ==
                 [Res("check_directory", ret, out, {"load"})
                     EXCEPT !.loaded = Loaded(ld)]
         IN  IF ld.raised THEN done("Raised", <<>>)
             ELSE IF hash_store.kind = "number" /\ w # <<>>
             THEN done("Raised", compute_file_hash(w[1]).out)
             ELSE IF modified_files = <<>> /\ new_files = <<>>
             THEN done("True", errors \o <<Msg("All files unmodified.", "")>>)
             ELSE [done("False",
                        errors \o Listed("Modified files:", modified_files)
                               \o Listed("New files (not in hash store):",
                                         new_files))
                     EXCEPT !.modified_files = modified_files,
                            !.new_files = new_files]

\* main(): the function a command line runs
main(command, path, full) ==
    CASE command = "init" -> initialize(path, full)
      [] command = "update" -> update_file(path, full)
      [] command = "check" ->
            IF isfile(path) THEN check_file(path)
            ELSE IF isdir(path) THEN check_directory(path)
            ELSE Res("main", "None",
                     <<Msg("Error: not a valid file or directory", path)>>, {})


\* ------------------------------------------------------- the state machine
NoPrev == [fn |-> "", arg |-> ""]

\* no command has run since the file system last changed
Idle ==
    [cmd |-> "", arg |-> "", fn |-> "", ret |-> "", out |-> <<>>, io |-> {},
     modified_files |-> <<>>, new_files |-> <<>>, processed_files |-> 0,
     loaded |-> "-", exit |-> 0, prev |-> NoPrev]

Never == [st |-> "never", d |-> None]
Reset == [st |-> "reset", d |-> None]

\* hist after a command on the followed path f (r is what the command did):
\*   "never"     f was never the argument of update nor found by an init walk
\*   "kept"      update(f) stored digest d; since then the backing file was
\*               rewritten only by successful updates of other paths
\*   "clobbered" update(f) stored digest d; since then there was no update(f)
\*               and no init whose walk found f, but some other init, or a
\*               failed save
\*   "reset"     otherwise
Found(f, path) == path \in Dirs /\ DirOf(f) = path /\ isfile(f)

HistAfter(f, command, path, r) ==
    IF f \notin Files THEN hist
    ELSE IF command = "update" /\ f = path
    THEN IF r.ret = "True"
         THEN [st |-> "kept", d |-> hexdigest(FileBytes(f))]
         ELSE Reset
    ELSE IF command = "init" /\ Found(f, path)
    THEN Reset
    ELSE IF /\ hist.st = "kept"
            /\ "save" \in r.io
            /\ (command = "init" \/ r.ret # "True")
    THEN [hist EXCEPT !.st = "clobbered"]
    ELSE hist

\* one run of the program: `full` says whether the disk runs full while the
\* store is being written
\* (prev names the command before this one when this one is a check after a
\* successful init or update, or repeats the command before it)
Run(command, path, full) ==
    \E r \in {main(command, path, full)} :
        /\ disk' = r.disk
        /\ mode' = r.mode
        /\ last' = [cmd |-> command, arg |-> path, fn |-> r.fn, ret |-> r.ret,
                    out |-> r.out, io |-> r.io,
                    modified_files |-> r.modified_files,
                    new_files |-> r.new_files,
                    processed_files |-> r.processed_files,
                    loaded |-> r.loaded,
                    exit |-> IF r.ret = "Raised" THEN 1 ELSE 0,
                    prev |-> IF \/ /\ command = "check" /\ last.ret = "True"
                                   /\ last.fn \in {"initialize", "update_file"}
                                \/ command = last.cmd /\ path = last.arg
                             THEN [fn |-> last.fn, arg |-> last.arg]
                             ELSE NoPrev]
        /\ hist' = HistAfter(watch, command, path, r)
        /\ UNCHANGED <<fs, watch, procs>>

MainInit(path) == \E full \in BOOLEAN : Run("init", path, full)

MainCheck(path) == Run("check", path, FALSE)

MainUpdate(path) == \E full \in BOOLEAN : Run("update", path, full)

\* the environment writes, protects and removes log files
WriteFile(f, c) ==
    /\ fs' = [fs EXCEPT ![f] = [exists |-> TRUE, bytes |-> c,
                                readable |-> IF fs[f].exists
                                             THEN fs[f].readable ELSE TRUE]]
    /\ fs' # fs
    /\ last' = Idle
    /\ UNCHANGED <<disk, mode, watch, hist, procs>>

Chmod(f) ==
    /\ fs[f].exists
    /\ fs' = [fs EXCEPT ![f].readable = ~fs[f].readable]
    /\ last' = Idle
    /\ UNCHANGED <<disk, mode, watch, hist, procs>>

Remove(f) ==
    /\ fs[f].exists
    /\ fs' = [fs EXCEPT ![f] = NoFile]
    /\ last' = Idle
    /\ UNCHANGED <<disk, mode, watch, hist, procs>>

\* the environment overwrites, protects and removes the backing file
Modes == {{"r", "w"}, {"r"}, {"w"}}

Foreign == {Garbage, Holds("list", EmptyMap), Holds("number", EmptyMap),
            Holds("string", EmptyMap)}

WriteStore(h) ==
    /\ disk # h
    /\ disk' = h
    /\ mode' = IF disk.kind = "absent" THEN {"r", "w"} ELSE mode
    /\ last' = Idle
    /\ UNCHANGED <<fs, watch, hist, procs>>

ChmodStore(m) ==
    /\ disk.kind # "absent"
    /\ mode # m
    /\ mode' = m
    /\ last' = Idle
    /\ UNCHANGED <<fs, disk, watch, hist, procs>>

RemoveStore ==
    /\ disk.kind # "absent"
    /\ disk' = Absent
    /\ mode' = {"r", "w"}
    /\ last' = Idle
    /\ UNCHANGED <<fs, watch, hist, procs>>

\* --------------------------------------------- concurrent update processes
\* update_file run by two processes at once, one statement group at a time:
\* the isfile test and the hashing, then load_hash_store, then the
\* assignment and save_hash_store.  Nothing locks the backing file.
Procs == {"p1", "p2"}

NoProc ==
    [pc |-> "idle", file_path |-> "", current_hash |-> None,
     hash_store |-> EmptyMap, ret |-> "", latest |-> FALSE]

\* lines 88-94: the argument is tested and hashed
UpdHash(p, file_path) ==
    /\ procs[p].pc = "idle"
    /\ procs' = [procs EXCEPT ![p] =
          IF ~isfile(file_path) \/ compute_file_hash(file_path).hash = None
          THEN [NoProc EXCEPT !.pc = "done", !.file_path = file_path,
                              !.ret = "False"]
          ELSE [NoProc EXCEPT !.pc = "hashed", !.file_path = file_path,
                   !.current_hash = compute_file_hash(file_path).hash]]
    /\ UNCHANGED <<fs, disk, mode, last, watch, hist>>

\* line 96: the process loads its own copy of the store
UpdLoad(p) ==
    /\ procs[p].pc = "hashed"
    /\ LET ld == load_hash_store
       IN  procs' = [procs EXCEPT ![p] =
              IF ld.raised \/ ld.val.kind # "object"
              THEN [@ EXCEPT !.pc = "done", !.ret = "Raised"]
              ELSE [@ EXCEPT !.pc = "loaded", !.hash_store = ld.val.map]]
    /\ UNCHANGED <<fs, disk, mode, last, watch, hist>>

\* lines 97-102: the process sets its entry in its copy and saves the copy
\* (latest marks the process that wrote the backing file last)
UpdSave(p, full) ==
    /\ procs[p].pc = "loaded"
    /\ LET me == procs[p]
           sv == save_hash_store(
                     Set(me.hash_store, me.file_path, me.current_hash), full)
       IN  /\ disk' = sv.disk
           /\ mode' = sv.mode
           /\ procs' = [q \in Procs |->
                 IF q = p
                 THEN [me EXCEPT !.pc = "done", !.latest = TRUE,
                                 !.ret = IF sv.ok THEN "True" ELSE "False"]
                 ELSE [procs[q] EXCEPT !.latest = FALSE]]
    /\ UNCHANGED <<fs, last, watch, hist>>

\* the process ends; another command may be started in its place
UpdExit(p) ==
    /\ procs[p].pc = "done"
    /\ procs' = [procs EXCEPT ![p] = NoProc]
    /\ UNCHANGED <<fs, disk, mode, last, watch, hist>>

Start ==
    /\ fs = [f \in LogFiles |->
                [exists |-> TRUE, bytes |-> IF f = "D/x.log" THEN 0 ELSE 1,
                 readable |-> TRUE]]
    /\ disk = Absent
    /\ mode = {"r", "w"}
    /\ last = Idle
    /\ hist = Never
    /\ procs = [p \in Procs |-> NoProc]

\* the store does not exist yet; one path's history is followed
Init == Start /\ watch \in Volatile \cup {HASH_STORE}

Next ==
    \/ \E path \in Paths : MainInit(path)
    \/ \E path \in Paths : MainCheck(path)
    \/ \E path \in Paths : MainUpdate(path)
    \/ \E f \in LogFiles, c \in Contents : WriteFile(f, c)
    \/ \E f \in Volatile : Chmod(f)
    \/ \E f \in Volatile : Remove(f)

\* the program alone owns the backing file
Spec == Init /\ [][Next]_vars

InitEnv == Start /\ watch = "-"

NextEnv ==
    \/ Next
    \/ \E h \in Foreign : WriteStore(h)
    \/ \E m \in Modes : ChmodStore(m)
    \/ RemoveStore

\* anything may also overwrite, protect or remove the backing file
SpecEnv == InitEnv /\ [][NextEnv]_vars

NextConc ==
    \/ \E p \in Procs, file_path \in Paths : UpdHash(p, file_path)
    \/ \E p \in Procs : UpdLoad(p)
    \/ \E p \in Procs, full \in BOOLEAN : UpdSave(p, full)
    \/ \E p \in Procs : UpdExit(p)

\* two update commands run at once, their steps interleaved
SpecConc == InitEnv /\ [][NextConc]_vars


\* ------------------------------------------------------------- properties
Printed(tag) == \E i \in DOMAIN last.out : last.out[i][1] = tag

Unmodified == last.ret = "True" /\ Printed("Status: Unmodified")
Modified == last.ret = "False" /\ Printed("Status: Modified (Hash mismatch)")
New == last.ret = "False" /\ Printed("Status: New file (not in hash store)")

\* the command before this check succeeded and was fn(arg)
Follows(fn, arg) == last.prev = [fn |-> fn, arg |-> arg]

Keys == IF disk.kind = "object" THEN DOMAIN disk.map ELSE {}

\* C1, as claimed: for every regular file f, check(f) straight after a
\* successful update(f) reports "unmodified" and returns True.
C1_RoundTripAnyFile ==
    (last.fn = "check_file" /\ Follows("update_file", last.arg)) => Unmodified

\* C1, amended: for every regular file f other than the backing file of the
\* store, check(f) straight after a successful update(f) reports
\* "unmodified" and returns True.
C1_RoundTrip ==
    ( /\ last.fn = "check_file"
      /\ Follows("update_file", last.arg)
      /\ last.arg # HASH_STORE ) => Unmodified

C1_Witness ==
    /\ last.fn = "check_file"
    /\ Follows("update_file", last.arg)
    /\ last.arg # HASH_STORE
    /\ Unmodified
    /\ Cardinality(Keys) > 1

\* the followed path was recorded by update, holds other bytes now, and is
\* being checked
Changed(states) ==
    /\ last.fn = "check_file"
    /\ last.arg = watch
    /\ hist.st \in states
    /\ hexdigest(FileBytes(watch)) # hist.d

\* C2, as claimed: after update(f), once f's bytes have another digest and as
\* long as there was no update(f) and no init covering f, check(f) reports
\* "modified" and returns False.
C2_DetectsUnlessReinit == Changed({"kept", "clobbered"}) => Modified

\* C2, amended: after a successful update(f), once f's bytes have another
\* digest and as long as the backing file was rewritten only by successful
\* updates of other paths, check(f) reports "modified" and returns False.
C2_Detects == Changed({"kept"}) => Modified

C2_Witness == Changed({"kept"}) /\ Modified /\ Cardinality(Keys) > 1

\* C3: from an empty store, a path that was never the argument of update and
\* never found by an init walk is reported "new", with False, by check.
C3_NewFile ==
    (last.fn = "check_file" /\ last.arg = watch /\ hist.st = "never") => New

C3_Witness ==
    /\ last.fn = "check_file"
    /\ last.arg = watch
    /\ hist.st = "never"
    /\ New
    /\ Keys # {}

\* C4, as claimed: check(D) straight after a successful init(D) reports all
\* files unmodified (no modified file, no new file) and returns True, for
\* every directory D.
C4_InitThenCheck ==
    (last.fn = "check_directory" /\ Follows("initialize", last.arg)) =>
        /\ last.ret = "True"
        /\ last.modified_files = <<>>
        /\ last.new_files = <<>>
        /\ Printed("All files unmodified.")

\* C5: a successful init(D) leaves a store whose keys are exactly the files
\* under D it could hash, and check(a) straight after it, for a file a that
\* is not under D, reports "new".
C5_Reinit ==
    /\ [][(last'.fn = "initialize" /\ last'.ret = "True") =>
            /\ disk'.kind = "object"
            /\ DOMAIN disk'.map =
                   {f \in Files : /\ DirOf(f) = last'.arg
                                  /\ isfile(f) /\ CanRead(f)}]_vars
    /\ []((last.fn = "check_file" /\ last.prev.fn = "initialize"
                                  /\ DirOf(last.arg) # last.prev.arg) => New)

C5_Witness ==
    /\ last.fn = "check_file"
    /\ last.prev.fn = "initialize"
    /\ DirOf(last.arg) # last.prev.arg
    /\ last.arg = watch
    /\ hist.st = "clobbered"
    /\ New

\* C6: no check, whatever its argument and outcome, changes the backing file.
C6_CheckReadOnly ==
    [][last'.cmd = "check" => (disk' = disk /\ mode' = mode)]_vars

C6_Witness ==
    /\ last.fn = "check_file"
    /\ New
    /\ disk.kind = "object"
    /\ last.arg \notin DOMAIN disk.map

\* the store update(f) loads: what the backing file holds, or {}
Before == IF disk.kind = "object" THEN disk.map ELSE EmptyMap

Frame ==
    /\ disk'.kind = "object"
    /\ DOMAIN disk'.map = DOMAIN Before \cup {last'.arg}
    /\ \A q \in DOMAIN Before \ {last'.arg} : disk'.map[q] = Before[q]

\* C7, as claimed: after a successful update(f), store[f] is the digest f
\* has now, and every other key is in the store iff it was, with the digest
\* it had.
C7_UpdateSetsCurrent ==
    [][(last'.fn = "update_file" /\ last'.ret = "True") =>
          /\ Frame
          /\ disk'.map[last'.arg] = hexdigest(FileBytes(last.arg))']_vars

\* C7, amended: after a successful update(f), store[f] is the digest of the
\* bytes f had when update hashed it, and every other key is in the store
\* iff it was, with the digest it had.
C7_UpdateFrame ==
    [][(last'.fn = "update_file" /\ last'.ret = "True") =>
          /\ Frame
          /\ disk'.map[last'.arg] = hexdigest(FileBytes(last'.arg))]_vars

C7_Witness ==
    /\ last.fn = "update_file"
    /\ last.ret = "True"
    /\ Cardinality(Keys) > 1

\* p wrote the backing file last, q wrote it before, both report success,
\* and p had loaded its copy before q's entry was in the file
Raced(p, q) ==
    /\ p # q
    /\ procs[p].pc = "done" /\ procs[p].ret = "True" /\ procs[p].latest
    /\ procs[q].pc = "done" /\ procs[q].ret = "True"
    /\ procs[q].file_path # procs[p].file_path
    /\ procs[q].file_path \notin DOMAIN procs[p].hash_store

\* C8: when two updates of different paths interleave so that the last
\* writer loaded before the other saved, both report success and the store
\* holds the last writer's entry and not the other's.
C8_LastWriterWins ==
    \A p, q \in Procs :
        Raced(p, q) =>
            /\ disk.kind = "object"
            /\ procs[p].file_path \in DOMAIN disk.map
            /\ procs[q].file_path \notin DOMAIN disk.map

C8_Witness == \E p, q \in Procs : Raced(p, q) /\ Cardinality(Keys) = 1

\* C9, as claimed: load returns a mapping, and the empty one whenever the
\* backing file is absent or holds anything but a JSON object.
C9_LoadRecovers ==
    (last.cmd = "check" /\ "load" \in last.io /\ "r" \in mode) =>
        /\ last.loaded \in {"{}", "dict"}
        /\ disk.kind # "object" => last.loaded = "{}"

\* C10, as claimed: no command ends by an uncaught exception.
C10_NoCrash == last.ret # "Raised"

\* the command was given a path of the wrong kind
InputError(cmd, path) ==
    \/ cmd = "init" /\ ~isdir(path)
    \/ cmd = "update" /\ ~isfile(path)
    \/ cmd = "check" /\ ~isfile(path) /\ ~isdir(path)

NotValid ==
    \/ Printed("Error: not a valid directory")
    \/ Printed("Error: not a valid file")
    \/ Printed("Error: not a valid file or directory")

\* C11: init on a path that is not a directory, update on a path that is not
\* a regular file and check on a path that is neither print an error, call
\* neither load nor save, and leave the backing file as it was.
C11_InputError ==
    [][InputError(last'.cmd, last'.arg) =>
          /\ NotValid'
          /\ last'.ret \in {"False", "None"}
          /\ last'.io = {}
          /\ disk' = disk
          /\ mode' = mode]_vars

C11_Witness ==
    /\ last.cmd = "init"
    /\ InputError(last.cmd, last.arg)
    /\ NotValid
    /\ last.io = {}
    /\ Keys # {}

\* the backing file cannot be opened for writing, or the write was cut short
SaveFailed ==
    /\ "save" \in last'.io
    /\ \/ disk.kind # "absent" /\ "w" \notin mode
       \/ disk'.kind = "text"

\* C12: when save cannot persist the store, init and update do not raise,
\* return False, print the save error and do not print their success message.
C12_StoreWriteError ==
    [][SaveFailed =>
          /\ last'.fn \in {"initialize", "update_file"}
          /\ last'.ret = "False"
          /\ Printed("Error saving hash store")'
          /\ ~Printed("Hashes stored successfully")'
          /\ ~Printed("Hash updated successfully.")']_vars

C12_Witness ==
    /\ last.fn = "update_file"
    /\ "save" \in last.io
    /\ last.ret = "False"
    /\ Printed("Error saving hash store")
    /\ "w" \notin mode
    /\ Keys # {}

\* C13, as claimed: the process exits with a success code when the command
\* function returns True and with a failure code when it returns False.
C13_ExitCode ==
    /\ last.ret = "True" => last.exit = 0
    /\ last.ret = "False" => last.exit # 0

\* the files that exist under directory d
Under(d) == {f \in Files : DirOf(f) = d /\ isfile(f)}

\* the digest check_directory computes for f differs from the stored one
Differs(f) == f \in Keys /\ disk.map[f] # compute_file_hash(f).hash

Heading(tag) == {i \in DOMAIN last.out : last.out[i][1] = tag}

\* D/x.log and D/y.log were recorded, and D/x.log alone has changed since
XChanged ==
    /\ last.fn = "check_directory" /\ last.arg = "D"
    /\ Keys = LogFiles
    /\ \A f \in LogFiles : isfile(f) /\ CanRead(f)
    /\ disk.map["D/x.log"] # hexdigest(FileBytes("D/x.log"))
    /\ disk.map["D/y.log"] = hexdigest(FileBytes("D/y.log"))

\* C14: check(D) lists as new exactly the files under D that are not keys,
\* as modified exactly those that are keys with a stored digest other than
\* the current one, and none twice; it returns True iff both lists are empty
\* and prints the modified list before the new one.  With x.log and y.log
\* recorded and x.log changed, modified = [D/x.log] and new = [].
C14_Classification ==
    /\ last.fn = "check_directory" =>
          /\ Range(last.new_files) = {f \in Under(last.arg) : f \notin Keys}
          /\ Range(last.modified_files) = {f \in Under(last.arg) : Differs(f)}
          /\ Range(last.new_files) \cap Range(last.modified_files) = {}
          /\ Len(last.new_files) = Cardinality(Range(last.new_files))
          /\ Len(last.modified_files) = Cardinality(Range(last.modified_files))
          /\ last.ret \in {"True", "False"}
          /\ last.ret = "True" <=>
                (last.new_files = <<>> /\ last.modified_files = <<>>)
          /\ last.modified_files # <<>> <=> Heading("Modified files:") # {}
          /\ last.new_files # <<>> <=>
                Heading("New files (not in hash store):") # {}
          /\ \A i \in Heading("Modified files:"),
                j \in Heading("New files (not in hash store):") : i < j
    /\ XChanged =>
          last.modified_files = <<"D/x.log">> /\ last.new_files = <<>>

C14_Witness ==
    /\ XChanged
    /\ last.modified_files = <<"D/x.log">>
    /\ last.new_files = <<>>
    /\ last.ret = "False"

\* both lists are printed, the modified one first
C14_BothListed ==
    /\ last.fn = "check_directory"
    /\ last.modified_files = <<"D/x.log">>
    /\ last.new_files = <<"D/y.log">>
    /\ last.out[1][1] = "Modified files:"

\* a key under the checked directory whose file no longer exists
Deleted(p) == p \in Keys /\ DirOf(p) = last.arg /\ ~isfile(p)

\* C15: a key under D whose file no longer exists is in neither list of
\* check(D), and when every file still under D has the digest stored for it
\* check(D) prints "All files unmodified." and returns True.
C15_NoDeletionDetection ==
    last.fn = "check_directory" =>
        /\ \A p \in Files :
              Deleted(p) => p \notin Range(last.modified_files)
                                     \cup Range(last.new_files)
        /\ (\A f \in Under(last.arg) :
                f \in Keys /\ disk.map[f] = compute_file_hash(f).hash) =>
              last.ret = "True" /\ Printed("All files unmodified.")

C15_Witness ==
    /\ last.fn = "check_directory"
    /\ \E p \in Files : Deleted(p)
    /\ Under(last.arg) # {}
    /\ last.ret = "True"
    /\ Printed("All files unmodified.")

\* this step runs again the command that produced the state it starts from,
\* so the file system has not changed in between
Again == last'.cmd = last.cmd /\ last'.arg = last.arg

SameReport == last'.out = last.out /\ last'.ret = last.ret

FailedSave(l) == "save" \in l.io /\ l.ret = "False"

Unhashable == {f \in Under(last.arg) : compute_file_hash(f).hash = None}

\* C17, as claimed: check(D) puts a file under D that cannot be hashed in
\* neither list, and classifies every other file under D.
C17_CheckSkipsUnreadable ==
    last.fn = "check_directory" =>
        /\ Unhashable \cap (Range(last.modified_files)
                              \cup Range(last.new_files)) = {}
        /\ \A f \in Under(last.arg) \ Unhashable :
              /\ f \notin Keys => f \in Range(last.new_files)
              /\ Differs(f) => f \in Range(last.modified_files)

\* C18: a successful init(D) records every file under D that could be
\* hashed and none that could not, and the count it prints is the number of
\* entries in the store it wrote.
C18_InitSkipsUnreadable ==
    [][(last'.fn = "initialize" /\ last'.ret = "True") =>
          /\ disk'.kind = "object"
          /\ \A f \in Under(last'.arg) :
                IF CanRead(f)
                THEN /\ f \in DOMAIN disk'.map
                     /\ disk'.map[f] = hexdigest(FileBytes(f))
                ELSE /\ f \notin DOMAIN disk'.map
                     /\ \E i \in DOMAIN last'.out :
                           last'.out[i] = Msg("Error reading file", f)
          /\ last'.processed_files = Cardinality(DOMAIN disk'.map)]_vars

C18_Witness ==
    /\ last.fn = "initialize"
    /\ last.ret = "True"
    /\ Unhashable = {"D/x.log"}
    /\ Keys = {"D/y.log"}
    /\ last.processed_files = 1
    /\ Printed("Error reading file")

\* C19, as claimed: a key of the store stays a key over every update and
\* every check, successful or failed.
C19_KeysStay ==
    [][last'.cmd \in {"update", "check"} => Keys \subseteq Keys']_vars

\* the init that ran recorded none of the keys it removed
NotRecorded ==
    /\ last'.fn = "initialize"
    /\ last'.ret = "True"
    /\ \A p \in Keys \ Keys' : ~(p \in Under(last'.arg) /\ CanRead(p))

\* the command's save was cut short after the backing file was opened for
\* writing, which leaves the file truncated
CutShort == FailedSave(last') /\ disk' = Garbage

\* C19, amended: a key of the store stays a key over every check and over
\* every update whose save is not cut short; a command removes a key only
\* when it is an init that does not record it, or an init or update whose
\* save is cut short.
C19_KeysStayUnlessCutShort ==
    [][last'.cmd \in {"init", "update", "check"} =>
          \/ Keys \subseteq Keys'
          \/ NotRecorded
          \/ last'.cmd \in {"init", "update"} /\ CutShort]_vars

C19_Witness ==
    /\ last.fn = "update_file"
    /\ last.ret = "True"
    /\ \E p \in Keys : ~isfile(p)
    /\ Cardinality(Keys) > 1

\* update was asked for a file that exists and cannot be hashed
HashFails == last'.cmd = "update" /\ isfile(last'.arg) /\ ~CanRead(last'.arg)

\* C20: every value in the store is a digest, never None; an update whose
\* hashing fails returns False without loading or saving, and a successful
\* init records no file that could not be hashed.
C20_RealDigests ==
    /\ [](disk.kind = "object" => \A p \in Keys : disk.map[p] \in Digests)
    /\ [][HashFails =>
            /\ last'.ret = "False"
            /\ last'.io = {}
            /\ disk' = disk]_vars
    /\ [][(last'.fn = "initialize" /\ last'.ret = "True") =>
            \A f \in Under(last'.arg) : ~CanRead(f) => f \notin Keys']_vars

C20_Witness ==
    /\ last.fn = "update_file"
    /\ isfile(last.arg) /\ ~CanRead(last.arg)
    /\ last.ret = "False"
    /\ last.io = {}
    /\ Printed("Error reading file")
    /\ Keys # {}
    /\ \A p \in Keys : disk.map[p] \in Digests

====
